---- MODULE Spec2Model ----
(***************************************************************************)
(* Image compression proxy (save-bandwidth-): the request handlers of      *)
(* api/index.js (buffered and streaming), api/index1.js (sanitizing),      *)
(* api/index2.js (plain http proxy) and the three handlers of the unnamed  *)
(* parts, as one state machine per handled request.                        *)
(*                                                                         *)
(* Strings that the code parses (query parameters, the Content-Length      *)
(* header) are sequences of one-character strings, so that parseInt and    *)
(* Number are computed as JavaScript computes them.  JavaScript numbers    *)
(* are records [t, n] with t in {"num", "nan", "null"}.                    *)
(***************************************************************************)
EXTENDS Integers, Sequences, FiniteSets, TLC

\* ------------------------------------------------------------------------
\* Program constants
\* ------------------------------------------------------------------------
maxWidth == 16383
maxHeight == 16383
defaultQuality == 80
defaultFormat == "webp"
maxFileSize == 50 * 1024 * 1024

\* Number of chunks the encoder output is cut into while it is piped.
MaxChunks == 2

\* ------------------------------------------------------------------------
\* JavaScript values
\* ------------------------------------------------------------------------
Undefined == <<"undefined">>
Num(n) == [t |-> "num", n |-> n]
NaN == [t |-> "nan", n |-> 0]
Null == [t |-> "null", n |-> 0]

\* ToBoolean of a string: undefined and "" are falsy.
TruthyStr(s) == s # Undefined /\ s # <<>>
\* ToBoolean of a number or null: 0, NaN and null are falsy.
Truthy(v) == v.t = "num" /\ v.n # 0
isNaN(v) == v.t = "nan"
\* v < k and v > k; every comparison with NaN is false, null compares as 0.
JsLt(v, k) == v.t # "nan" /\ v.n < k
JsGt(v, k) == v.t # "nan" /\ v.n > k

DecDigits == {"0", "1", "2", "3", "4", "5", "6", "7", "8", "9"}
HexDigits == DecDigits \cup {"a", "b", "c", "d", "e", "f"}
DigitVal(c) ==
    CASE c = "0" -> 0 [] c = "1" -> 1 [] c = "2" -> 2 [] c = "3" -> 3
      [] c = "4" -> 4 [] c = "5" -> 5 [] c = "6" -> 6 [] c = "7" -> 7
      [] c = "8" -> 8 [] c = "9" -> 9 [] c = "a" -> 10 [] c = "b" -> 11
      [] c = "c" -> 12 [] c = "d" -> 13 [] c = "e" -> 14 [] c = "f" -> 15

RECURSIVE SkipSpace(_)
SkipSpace(s) == IF s # <<>> /\ Head(s) = " " THEN SkipSpace(Tail(s)) ELSE s

\* Value of the longest prefix of s made of digits of the radix; acc is the
\* value so far, seen says whether a digit was consumed.
RECURSIVE DigitPrefix(_, _, _, _)
DigitPrefix(s, radix, acc, seen) ==
    IF s # <<>> /\ Head(s) \in (IF radix = 16 THEN HexDigits ELSE DecDigits)
    THEN DigitPrefix(Tail(s), radix, acc * radix + DigitVal(Head(s)), TRUE)
    ELSE IF seen THEN Num(acc) ELSE NaN

\* parseInt(string, radix); radix 0 stands for a call without radix.
parseInt(str, radix) ==
    LET s1 == SkipSpace(str)
        neg == s1 # <<>> /\ Head(s1) = "-"
        s2 == IF s1 # <<>> /\ Head(s1) \in {"-", "+"} THEN Tail(s1) ELSE s1
        hex == radix = 0 /\ Len(s2) >= 2 /\ s2[1] = "0" /\ s2[2] = "x"
        s3 == IF hex THEN Tail(Tail(s2)) ELSE s2
        v == DigitPrefix(s3, IF hex THEN 16 ELSE 10, 0, FALSE)
    IN  IF v.t = "num" /\ neg THEN Num(0 - v.n) ELSE v

RECURSIVE AllDigits(_)
AllDigits(s) == s = <<>> \/ (Head(s) \in DecDigits /\ AllDigits(Tail(s)))

\* Number(value) for undefined and for strings of decimal digits.
JsNumber(str) ==
    IF str = Undefined THEN NaN
    ELSE IF str = <<>> THEN Num(0)
    ELSE IF AllDigits(str) THEN DigitPrefix(str, 10, 0, FALSE)
    ELSE NaN

\* The decimal text of a natural number, as a header value is written.
RECURSIVE DecStr(_)
DecStr(n) ==
    LET d == <<"0", "1", "2", "3", "4", "5", "6", "7", "8", "9">>[(n % 10) + 1]
    IN  IF n < 10 THEN <<d>> ELSE Append(DecStr(n \div 10), d)

\* Math.round(a / b) for positive b: the nearest integer, halves upward.
MathRound(a, b) == (2 * a + b) \div (2 * b)
Min(a, b) == IF a < b THEN a ELSE b
Max(a, b) == IF a > b THEN a ELSE b
SelectSeqNot(s, bad) == SelectSeq(s, LAMBDA x : x \notin bad)

\* ------------------------------------------------------------------------
\* URLs.  The text of a url parameter is kept in the parts the WHATWG
\* parser cuts it into: scheme ("" when the text has no "scheme:" prefix),
\* host, path segments and query keys.
\* ------------------------------------------------------------------------
UrlText(scheme, host, path, query) ==
    [kind |-> "text", scheme |-> scheme, host |-> host, path |-> path,
     query |-> query]
UrlUndefined == [kind |-> "undefined", scheme |-> "", host |-> "",
                 path |-> <<>>, query |-> <<>>]
UrlEmpty == [kind |-> "empty", scheme |-> "", host |-> "", path |-> <<>>,
             query |-> <<>>]

\* !url
UrlFalsy(u) == u.kind \in {"undefined", "empty"}

\* new URL(raw) succeeds: there is a scheme, and a special scheme has a host.
UrlParses(u) ==
    /\ u.kind = "text"
    /\ u.scheme # ""
    /\ (u.scheme \in {"http", "https", "ftp"} => u.host # "")

trackers ==
    {"utm_source", "utm_medium", "utm_campaign", "utm_term", "utm_content",
     "ref", "referrer", "fbclid", "gclid", "msclkid", "twclid", "ttclid",
     "vero_id", "hsutk", "ga_clientid", "ga_session", "gdpr", "_ga", "_gl",
     "yclid", "icid", "mkt_tok", "age_key", "session_key"}
badPathSegments ==
    {"utm_source", "utm_medium", "utm_campaign", "fbclid", "ref", "referrer",
     "gclid", "msclkid", "tracker", "clickid"}
\* seg.toLowerCase() on the vocabulary of the sample URLs.
toLowerCase(seg) ==
    CASE seg = "Tracker" -> "tracker" [] seg = "Ref" -> "ref" [] OTHER -> seg

\* sanitizeUrl(rawUrl): [ok |-> TRUE, url |-> cleaned] or, when it throws,
\* [ok |-> FALSE, message |-> ...] (every failure is rethrown with one text).
sanitizeUrl(rawUrl) ==
    IF UrlParses(rawUrl) /\ rawUrl.scheme \in {"http", "https"}
    THEN [ok |-> TRUE,
          url |-> [rawUrl EXCEPT
                     !.query = SelectSeqNot(@, trackers),
                     !.path = SelectSeq(@, LAMBDA seg :
                                 seg # "" /\ toLowerCase(seg) \notin badPathSegments)],
          message |-> ""]
    ELSE [ok |-> FALSE, url |-> rawUrl, message |-> "Invalid or unsafe URL"]

\* ------------------------------------------------------------------------
\* Requests that are received
\* ------------------------------------------------------------------------
Handlers == {"buffered", "streaming", "sanitizing", "proxy", "convert",
             "fast", "jpegonly"}
\* The handlers that read width, height, grayscale and the request method.
FullHandlers == {"buffered", "streaming", "sanitizing", "fast"}

GoodUrl == UrlText("https", "good.com", <<"img", "a.jpg">>, <<"v">>)
UrlSamples ==
    {UrlUndefined, UrlEmpty, GoodUrl,
     UrlText("", "", <<"notaurl">>, <<>>),
     UrlText("ftp", "good.com", <<"a.jpg">>, <<>>),
     UrlText("http", "good.com", <<"Tracker", "", "a.jpg">>, <<"fbclid", "v">>),
     UrlText("http", "bad.com", <<"a.jpg">>, <<>>),
     UrlText("https", "other.org", <<"a.png">>, <<"utm_source">>)}

WidthSamples ==
    {Undefined, <<"0">>, <<"8", "0", "0">>, <<"1", "6", "3", "8", "3">>,
     <<"1", "6", "3", "8", "4">>, <<"-", "1">>, <<"a", "b", "c">>,
     <<"0", "x", "1", "0">>}
HeightSamples ==
    {Undefined, <<"0">>, <<"6", "0", "0">>, <<"1", "6", "3", "8", "4">>,
     <<"a", "b", "c">>}
QualitySamples ==
    {Undefined, <<>>, <<"0">>, <<"1">>, <<"7", "0">>, <<"1", "0", "0">>,
     <<"1", "0", "1">>, <<"-", "5">>, <<"a", "b", "c">>, <<"5", "0", "p", "x">>}
FormatSamples == {"undefined", "", "jpeg", "png", "avif", "bmp", "tiff"}
GrayscaleSamples == {"undefined", "true", "1"}

BaseRequest ==
    [method |-> "GET", path |-> "/", url |-> GoodUrl, width |-> Undefined,
     height |-> Undefined, quality |-> Undefined, grayscale |-> "undefined",
     format |-> "undefined", acceptWebp |-> FALSE]

\* The requests: the base request varied in one group of parameters.
Requests ==
    {[BaseRequest EXCEPT !.url = u, !.method = m, !.path = p] :
        u \in UrlSamples, m \in {"GET", "POST", "OPTIONS"}, p \in {"/", "/health"}}
    \cup {[BaseRequest EXCEPT !.quality = q] : q \in QualitySamples}
    \cup {[BaseRequest EXCEPT !.width = w, !.height = h] :
            w \in WidthSamples, h \in HeightSamples}
    \cup {[BaseRequest EXCEPT !.format = f, !.acceptWebp = a, !.grayscale = g] :
            f \in FormatSamples, a \in BOOLEAN, g \in GrayscaleSamples}

\* What a handler destructures from req: the fields it never reads are left
\* at their base value.
QueryOf(h, r) ==
    IF h = "buffered" THEN r
    ELSE IF h \in FullHandlers THEN [r EXCEPT !.path = "/"]
    ELSE [BaseRequest EXCEPT !.url = r.url, !.quality = r.quality,
                             !.format = IF h = "jpegonly" THEN "undefined" ELSE r.format,
                             !.acceptWebp = r.acceptWebp]

\* ------------------------------------------------------------------------
\* What the source server answers to the outbound GET
\* ------------------------------------------------------------------------
\* outcome: "ok" (2xx after redirects), "http" (another status) or the code
\* of a transport error.  A present Content-Length is the decimal text of
\* the number of body bytes: the HTTP parser ends the body at that length.
SourceOk(ctype, hasLength, bytes, image, w, h) ==
    [outcome |-> "ok", status |-> 200, contentType |-> ctype,
     contentLength |-> IF hasLength THEN DecStr(bytes) ELSE Undefined,
     bytes |-> bytes, image |-> image, width |-> w, height |-> h,
     format |-> "jpeg"]
SourceFails(outcome, status) ==
    [outcome |-> outcome, status |-> status, contentType |-> "none",
     contentLength |-> Undefined, bytes |-> 0, image |-> "corrupt",
     width |-> 0, height |-> 0, format |-> ""]
NoSource == SourceFails("none", 0)

SmallBytes == 2048
DimSamples == {<<3000, 2000>>, <<100, 100>>, <<20000, 100>>, <<1, 40000>>,
               <<16383, 16383>>}
SourceSamples ==
    {SourceFails(c, 0) : c \in {"ECONNABORTED", "ETIMEDOUT", "ENOTFOUND", "ECONNREFUSED"}}
    \cup {SourceFails("http", st) : st \in {403, 404, 500}}
    \cup {SourceOk("text/html", TRUE, SmallBytes, "corrupt", 0, 0),
          SourceOk("none", FALSE, SmallBytes, "good", 100, 100)}
    \cup {SourceOk("image/jpeg", l, b, "good", 3000, 2000) :
            l \in BOOLEAN, b \in {SmallBytes, maxFileSize, maxFileSize + 1}}
    \cup {SourceOk("image/jpeg", TRUE, SmallBytes, i, d[1], d[2]) :
            i \in {"good", "corrupt", "truncated"}, d \in DimSamples}

\* ------------------------------------------------------------------------
\* Errors and their texts
\* ------------------------------------------------------------------------
Error(code, status, message) ==
    [code |-> code, responseStatus |-> status, message |-> message]
NoError == Error("", 0, "")

\* error.message.includes(needle) and its lower-cased form, on the texts the
\* libraries produce.
MessageIncludes(message, needle) ==
    CASE needle = "Invalid image" -> FALSE
      [] needle = "Input buffer contains unsupported image format" ->
            message = "Input buffer contains unsupported image format"
      [] OTHER -> FALSE
LowerMessageIncludes(message, needle) ==
    CASE needle = "invalid image" -> FALSE
      [] needle = "unsupported image format" ->
            message = "Input buffer contains unsupported image format"
      [] OTHER -> FALSE

\* ------------------------------------------------------------------------
\* The response object
\* ------------------------------------------------------------------------
LongCache == "public, max-age=31536000, immutable"
NoHeaders ==
    [contentType |-> "", cacheControl |-> "", cors |-> FALSE,
     xOriginalSize |-> -1, xOriginalWidth |-> -1, xOriginalHeight |-> -1,
     xProcessedWidth |-> -1, xProcessedHeight |-> -1,
     xProcessedFormat |-> "", xResizeApplied |-> ""]
NewResponse == [status |-> 200, headers |-> NoHeaders, writes |-> <<>>,
                ended |-> FALSE]
Body(kind, error, message) == [kind |-> kind, error |-> error, message |-> message]

\* res.status(code)
ResStatus(r, code) == [r EXCEPT !.status = code]
\* res.json({error, message}): a JSON body, and the response is finished.
ResJson(r, error, message) ==
    [r EXCEPT !.headers.contentType = "application/json",
              !.writes = Append(@, Body("json", error, message)),
              !.ended = TRUE]
\* res.send(text) and res.end(text): a text body.
ResText(r, text) ==
    [r EXCEPT !.headers.contentType =
                 IF @ = "" THEN "text/html" ELSE @,
              !.writes = Append(@, Body("text", text, "")),
              !.ended = TRUE]
\* res.send(buffer) and res.end(buffer): the processed image.
ResImage(r) ==
    [r EXCEPT !.writes = Append(@, Body("image", "", "")), !.ended = TRUE]
\* res.status(200).end()
ResEnd(r) == [r EXCEPT !.ended = TRUE]
CorsHeaders(r) == [r EXCEPT !.headers.cors = TRUE]

\* ------------------------------------------------------------------------
\* The catch blocks
\* ------------------------------------------------------------------------
DevMessage(nodeEnv, err) == IF nodeEnv = "development" THEN err.message ELSE ""

\* index.js, buffered handler
CatchBuffered(r, err, nodeEnv) ==
    IF err.code \in {"ECONNABORTED", "ETIMEDOUT"}
    THEN ResJson(ResStatus(r, 408), "Request timeout", "")
    ELSE IF err.code \in {"ENOTFOUND", "ECONNREFUSED"}
    THEN ResJson(ResStatus(r, 502), "Failed to connect to image server", "")
    ELSE IF err.responseStatus # 0
    THEN ResJson(ResStatus(r, err.responseStatus), "Failed to fetch image", "")
    ELSE IF MessageIncludes(err.message, "Invalid image")
    THEN ResJson(ResStatus(r, 400), "Invalid image format", "")
    ELSE IF MessageIncludes(err.message, "Input buffer contains unsupported image format")
    THEN ResJson(ResStatus(r, 400), "Unsupported image format", "")
    ELSE ResJson(ResStatus(r, 500), "Internal server error", DevMessage(nodeEnv, err))

\* index.js, streaming handler
CatchStreaming(r, err, nodeEnv) ==
    IF err.code \in {"ECONNABORTED", "ETIMEDOUT"}
    THEN ResJson(ResStatus(r, 408), "Request timeout", "")
    ELSE IF err.code \in {"ENOTFOUND", "ECONNREFUSED"}
    THEN ResJson(ResStatus(r, 502), "Failed to connect to image server", "")
    ELSE IF err.responseStatus # 0
    THEN ResJson(ResStatus(r, err.responseStatus), "Failed to fetch image", "")
    ELSE IF LowerMessageIncludes(err.message, "invalid image")
    THEN ResJson(ResStatus(r, 400), "Invalid image format", "")
    ELSE IF LowerMessageIncludes(err.message, "unsupported image format")
    THEN ResJson(ResStatus(r, 400), "Unsupported image format", "")
    ELSE ResJson(ResStatus(r, 500), "Internal server error", DevMessage(nodeEnv, err))

\* index1.js and the first handler of part_001
CatchPlain(r, err) ==
    ResJson(ResStatus(r, 500), "Internal server error", err.message)

\* index2.js, part_000 and the second handler of part_001: a text body that
\* ends with the error's message.
CatchText(r, err, prefix) ==
    [ResStatus(r, 500) EXCEPT
        !.headers.contentType = IF prefix = "Error: " THEN "text/plain"
                                ELSE IF @ = "" THEN "text/html" ELSE @,
        !.writes = Append(@, Body("text", prefix, err.message)),
        !.ended = TRUE]

Catch(h, r, err, nodeEnv) ==
    CASE h = "buffered" -> CatchBuffered(r, err, nodeEnv)
      [] h = "streaming" -> CatchStreaming(r, err, nodeEnv)
      [] h \in {"sanitizing", "fast"} -> CatchPlain(r, err)
      [] h = "proxy" -> CatchText(r, err, "Error: ")
      [] OTHER -> CatchText(r, err, "Compression failed: ")

\* ------------------------------------------------------------------------
\* sharp, as the handlers drive it
\* ------------------------------------------------------------------------
\* The ids toFormat accepts among the sampled formats (it lower-cases the id
\* and maps jpg to jpeg); any other id throws.
SharpOutputFormats == {"jpeg", "jpg", "png", "webp", "avif", "tiff", "gif"}
\* The quality option is checked by the format's own method.
SharpQualityOk(format, q) ==
    /\ q.t = "num"
    /\ q.n >= (IF format = "png" THEN 0 ELSE 1)
    /\ q.n <= 100
\* toFormat(format, {quality}): "" when it returns, else the thrown text.
SharpToFormat(format, q) ==
    IF format \notin SharpOutputFormats THEN "Unsupported output format"
    ELSE IF ~SharpQualityOk(format, q)
    THEN "Expected integer between 1 and 100 for quality"
    ELSE ""
\* resize({width, height}): null and undefined are "not given"; anything
\* else must be a positive integer.
SharpDimOk(v) == v.t = "null" \/ (v.t = "num" /\ v.n > 0)
SharpResize(opts) ==
    IF ~SharpDimOk(opts.width) THEN "Expected positive integer for width"
    ELSE IF ~SharpDimOk(opts.height) THEN "Expected positive integer for height"
    ELSE ""

\* Dimensions of the output of resize({width, height, fit: 'inside',
\* withoutEnlargement: true}) on an ow x oh input: the shrink factor is the
\* larger of ow/width and oh/height, and never below 1.
ResizedDims(ow, oh, opts) ==
    LET w == opts.width
        h == opts.height
        \* byWidth: the width is the tighter constraint
        byWidth == IF w.t = "null" THEN FALSE
                   ELSE IF h.t = "null" THEN TRUE
                   ELSE ow * h.n >= oh * w.n
    IN  IF w.t = "null" /\ h.t = "null" THEN <<ow, oh>>
        ELSE IF byWidth
        THEN IF w.n >= ow THEN <<ow, oh>>
             ELSE <<w.n, Max(1, MathRound(oh * w.n, ow))>>
        ELSE IF h.n >= oh THEN <<ow, oh>>
             ELSE <<Max(1, MathRound(ow * h.n, oh)), h.n>>
NoResize == [width |-> Null, height |-> Null]

\* ------------------------------------------------------------------------
\* State
\* ------------------------------------------------------------------------
VARIABLES
    config,   \* the module's config object and NODE_ENV
    handler,  \* the exported handler this function serves
    pc,       \* where the handler is: idle, the await it is suspended at, done
    req,      \* what the handler destructured from the request
    loc,      \* the handler's local variables
    src,      \* the source server's answer, once the fetch settled
    net,      \* the outbound requests issued for this request
    sharp,    \* the sharp instance: its input and the operations queued on it
    res,      \* the response object
    other     \* the other request in flight in the same process
vars == <<config, handler, pc, req, loc, src, net, sharp, res, other>>

NoLocals ==
    [targetWidth |-> Null, targetHeight |-> Null, targetQuality |-> NaN,
     useGrayscale |-> FALSE, targetFormat |-> "", contentLength |-> NaN,
     originalWidth |-> 0, originalHeight |-> 0, needsResize |-> FALSE,
     resizeOptions |-> NoResize]
NoNet == [fetches |-> 0, url |-> UrlUndefined]
NoSharp ==
    [input |-> -1, resized |-> FALSE, resizeOptions |-> NoResize,
     grayscale |-> FALSE, format |-> "", quality |-> NaN, sent |-> 0]

\* allowedDomains and blockedDomains are literals of index.js (both [] as
\* committed) that a deployment fills in, see "Environment Variables" in
\* README.md; the lists are drawn here so that the domain check is
\* exercised.  The other modules have no such lists.
NodeEnvs == {"production", "development"}
DomainLists == {<<{}, {}>>, <<{}, {"bad.com"}>>, <<{"good.com"}, {}>>}
Configs(h) ==
    {[nodeEnv |-> e, allowedDomains |-> d[1], blockedDomains |-> d[2],
      defaultQuality |-> defaultQuality, defaultFormat |-> defaultFormat] :
        e \in NodeEnvs, d \in (IF h = "buffered" THEN DomainLists ELSE {<<{}, {}>>})}

\* The state of one request: the process runs the handler for several
\* requests at a time, one of them between two awaits, the others suspended.
Slot(p, q, l, s, n, sh, r) ==
    [pc |-> p, req |-> q, loc |-> l, src |-> s, net |-> n, sharp |-> sh, res |-> r]
IdleSlot == Slot("idle", BaseRequest, NoLocals, NoSource, NoNet, NoSharp, NewResponse)

Init ==
    /\ handler \in Handlers
    /\ config \in Configs(handler)
    /\ pc = "idle"
    /\ req = BaseRequest
    /\ loc = NoLocals
    /\ src = NoSource
    /\ net = NoNet
    /\ sharp = NoSharp
    /\ res = NewResponse
    /\ other = IdleSlot

\* ------------------------------------------------------------------------
\* The handlers up to their first await
\* ------------------------------------------------------------------------
\* What the call of the HTTP client does with the url before any network
\* I/O.  A text that is no absolute URL is rejected by current clients and
\* resolved against localhost by older ones (viaLocalhost).
ClientCall(u, viaLocalhost) ==
    IF ~UrlParses(u) THEN (IF viaLocalhost THEN "send" ELSE "invalid")
    ELSE IF u.scheme \notin {"http", "https"} THEN "unsupported"
    ELSE "send"
ClientError(call) ==
    IF call = "invalid" THEN Error("ERR_INVALID_URL", 0, "Invalid URL")
    ELSE Error("ERR_BAD_REQUEST", 0, "Unsupported protocol")

Respond(r) == [kind |-> "respond", res |-> r, loc |-> NoLocals, err |-> NoError,
               url |-> UrlUndefined]
Throw(l, e) == [kind |-> "throw", res |-> NewResponse, loc |-> l, err |-> e,
                url |-> UrlUndefined]
Fetch(l, u) == [kind |-> "fetch", res |-> NewResponse, loc |-> l, err |-> NoError,
                url |-> u]
CallClient(l, u, viaLocalhost) ==
    LET call == ClientCall(u, viaLocalhost)
    IN  IF call = "send" THEN Fetch(l, u) ELSE Throw(l, ClientError(call))

\* const targetWidth = width ? parseInt(width) : null; ... of a handler that
\* calls parseInt with the given radix.
targetFormat(q, cfg) ==
    IF q.format \in {"undefined", ""} THEN cfg.defaultFormat ELSE q.format
ParseQuery(q, radix, cfg) ==
    [NoLocals EXCEPT
        !.targetWidth = IF TruthyStr(q.width) THEN parseInt(q.width, radix) ELSE Null,
        !.targetHeight = IF TruthyStr(q.height) THEN parseInt(q.height, radix) ELSE Null,
        !.targetQuality = IF TruthyStr(q.quality) THEN parseInt(q.quality, radix)
                          ELSE Num(cfg.defaultQuality),
        !.useGrayscale = (q.grayscale = "true"),
        !.targetFormat = targetFormat(q, cfg)]

\* The parameter checks of index.js, buffered handler: "" or the error text.
ValidateBuffered(l) ==
    IF Truthy(l.targetWidth) /\ (JsLt(l.targetWidth, 1) \/ JsGt(l.targetWidth, maxWidth))
    THEN "Width must be between 1 and 16383"
    ELSE IF Truthy(l.targetHeight)
            /\ (JsLt(l.targetHeight, 1) \/ JsGt(l.targetHeight, maxHeight))
    THEN "Height must be between 1 and 16383"
    ELSE IF JsLt(l.targetQuality, 1) \/ JsGt(l.targetQuality, 100)
    THEN "Quality must be between 1 and 100"
    ELSE ""
\* The parameter checks of the streaming handler, index1.js and part_001.
ValidateStrict(l) ==
    IF Truthy(l.targetWidth)
       /\ (isNaN(l.targetWidth) \/ JsLt(l.targetWidth, 1) \/ JsGt(l.targetWidth, maxWidth))
    THEN "Width must be between 1 and 16383"
    ELSE IF Truthy(l.targetHeight)
            /\ (isNaN(l.targetHeight) \/ JsLt(l.targetHeight, 1)
                \/ JsGt(l.targetHeight, maxHeight))
    THEN "Height must be between 1 and 16383"
    ELSE IF isNaN(l.targetQuality) \/ JsLt(l.targetQuality, 1) \/ JsGt(l.targetQuality, 100)
    THEN "Quality must be between 1 and 100"
    ELSE ""

\* index.js:81-88: "" or the text of the 403 answer.  The variant that
\* forgets the allow-list is kept beside it.
DomainCheckBlockOnly(cfg, hostname) ==
    IF hostname \in cfg.blockedDomains THEN "Domain is blocked" ELSE ""
DomainCheck(cfg, hostname) ==
    IF hostname \in cfg.blockedDomains THEN "Domain is blocked"
    ELSE IF cfg.allowedDomains # {} /\ hostname \notin cfg.allowedDomains
    THEN "Domain not allowed"
    ELSE ""

\* index.js:20-100
PreludeBuffered(q, cfg, viaLocalhost) ==
    LET r == CorsHeaders(NewResponse)
        l == ParseQuery(q, 0, cfg)
        invalid == ValidateBuffered(l)
    IN  IF q.method = "OPTIONS" THEN Respond(ResEnd(ResStatus(r, 200)))
        ELSE IF q.path = "/health"
        THEN Respond([r EXCEPT !.headers.contentType = "application/json",
                               !.writes = Append(@, Body("health", "", "")),
                               !.ended = TRUE])
        ELSE IF UrlFalsy(q.url) THEN Respond(ResText(r, "URL parameter is required"))
        ELSE IF invalid # "" THEN Respond(ResJson(ResStatus(r, 400), invalid, ""))
        ELSE IF ~UrlParses(q.url)
        THEN [Throw(l, Error("ERR_INVALID_URL", 0, "Invalid URL")) EXCEPT !.res = r]
        ELSE IF DomainCheck(cfg, q.url.host) # ""
        THEN Respond(ResJson(ResStatus(r, 403), DomainCheck(cfg, q.url.host), ""))
        ELSE [CallClient(l, q.url, viaLocalhost) EXCEPT !.res = r]

\* index.js:271-313, index1.js:92-157 (sanitize = TRUE), part_001:19-58
PreludeStrict(q, cfg, sanitize, viaLocalhost) ==
    LET l == ParseQuery(q, 10, cfg)
        invalid == ValidateStrict(l)
        cleaned == sanitizeUrl(q.url)
    IN  IF q.method # "GET"
        THEN Respond(ResJson(ResStatus(NewResponse, 405), "Method not allowed", ""))
        ELSE IF UrlFalsy(q.url)
        THEN Respond(ResJson(ResStatus(NewResponse, 400), "URL parameter is required", ""))
        ELSE IF sanitize /\ ~cleaned.ok
        THEN Respond(ResJson(ResStatus(NewResponse, 400), cleaned.message, ""))
        ELSE IF invalid # ""
        THEN Respond(ResJson(ResStatus(NewResponse, 400), invalid, ""))
        ELSE CallClient(l, IF sanitize THEN cleaned.url ELSE q.url, viaLocalhost)

\* index2.js:23-36, part_000:4-14, part_001:129-139
PreludeMinimal(h, q, viaLocalhost) ==
    LET l == [NoLocals EXCEPT
                !.targetFormat =
                    IF h = "proxy"
                    THEN (IF q.format \in {"undefined", ""} THEN "webp" ELSE q.format)
                    ELSE IF h = "convert"
                    THEN (IF q.format = "undefined" THEN "jpeg" ELSE q.format)
                    ELSE "jpeg",
                !.targetQuality =
                    IF h = "proxy"
                    THEN (IF TruthyStr(q.quality) THEN parseInt(q.quality, 10) ELSE Num(50))
                    ELSE parseInt(IF q.quality = Undefined THEN <<"6", "0">> ELSE q.quality, 10)]
    IN  IF UrlFalsy(q.url)
        THEN Respond(IF h = "proxy"
                     THEN ResText([ResStatus(NewResponse, 400) EXCEPT
                                      !.headers.contentType = "text/plain"], "Usage")
                     ELSE ResText(ResStatus(NewResponse, 400), "Missing ?url= parameter"))
        ELSE CallClient(l, q.url, viaLocalhost)

Prelude(h, q, cfg, viaLocalhost) ==
    CASE h = "buffered" -> PreludeBuffered(q, cfg, viaLocalhost)
      [] h \in {"streaming", "fast"} -> PreludeStrict(q, cfg, FALSE, viaLocalhost)
      [] h = "sanitizing" -> PreludeStrict(q, cfg, TRUE, viaLocalhost)
      [] OTHER -> PreludeMinimal(h, q, viaLocalhost)

\* A request arrives and the handler runs until it responds or awaits the
\* fetch: what it does to the request's own state.
HandleRequestSteps(r, viaLocalhost) ==
    LET q == QueryOf(handler, r)
        p == Prelude(handler, q, config, viaLocalhost)
    IN  /\ pc = "idle"
        /\ req' = q
        /\ loc' = p.loc
        /\ IF p.kind = "fetch"
           THEN /\ pc' = "fetching"
                /\ net' = [fetches |-> net.fetches + 1, url |-> p.url]
                /\ res' = p.res
           ELSE /\ pc' = "done"
                /\ net' = net
                /\ res' = IF p.kind = "throw"
                          THEN Catch(handler, p.res, p.err, config.nodeEnv)
                          ELSE p.res
        /\ UNCHANGED <<handler, src, sharp, other>>

\* A variant that keeps the format of the request as the new default.
HandleRequestKeepsFormat(r, viaLocalhost) ==
    /\ HandleRequestSteps(r, viaLocalhost)
    /\ config' = IF loc'.targetFormat = "" THEN config
                 ELSE [config EXCEPT !.defaultFormat = loc'.targetFormat]

\* The handler reads config and never assigns to it.
HandleRequest(r, viaLocalhost) ==
    /\ HandleRequestSteps(r, viaLocalhost)
    /\ config' = config

\* ------------------------------------------------------------------------
\* The fetch settles
\* ------------------------------------------------------------------------
\* a || b on numbers
JsOr(a, b) == IF Truthy(a) THEN a ELSE b

\* The error the HTTP client rejects with, NoError when it resolves.  axios
\* rejects a status outside 2xx and, where maxContentLength is set (buffered
\* handler), a body of more bytes; fetchImage of index2.js rejects every
\* status but 200.
FetchError(h, s) ==
    IF s.outcome \notin {"ok", "http"} THEN Error(s.outcome, 0, "transport error")
    ELSE IF h = "proxy"
    THEN (IF s.status # 200 THEN Error("", 0, "Fetch failed") ELSE NoError)
    ELSE IF s.outcome = "http"
    THEN Error("ERR_BAD_RESPONSE", s.status, "Request failed with status code")
    ELSE IF h = "buffered" /\ s.bytes > maxFileSize
    THEN Error("ERR_BAD_RESPONSE", 0, "maxContentLength size exceeded")
    ELSE NoError

\* const contentLength = ... of each handler
contentLength(h, s) ==
    CASE h = "buffered" ->
            parseInt(IF TruthyStr(s.contentLength) THEN s.contentLength ELSE <<"0">>, 0)
      [] h = "streaming" -> JsOr(JsNumber(s.contentLength), Num(0))
      [] OTHER -> JsOr(JsNumber(s.contentLength), Num(s.bytes))

IsImageType(ctype) == ctype = "image/jpeg"

\* The code between the fetch and the next await.  kind "respond", "throw"
\* or "await" (then sharp holds the new instance and next is the await).
AfterFetch(h, s, l, r) ==
    LET cl == contentLength(h, s)
        l2 == [l EXCEPT !.contentLength = cl]
        decode == [NoSharp EXCEPT !.input = s.bytes]
        fmt == IF h = "jpegonly" THEN "jpeg" ELSE l.targetFormat
        thrown == SharpToFormat(fmt, l.targetQuality)
    IN  IF h \in FullHandlers
        THEN IF ~IsImageType(s.contentType)
             THEN [kind |-> "respond", loc |-> l, sharp |-> NoSharp, err |-> NoError,
                   res |-> ResJson(ResStatus(r, 400), "URL is not a valid image", "")]
             ELSE IF h = "fast"
             THEN [kind |-> "throw", loc |-> l, sharp |-> NoSharp, res |-> r,
                   err |-> Error("", 0, "Cannot read properties of undefined")]
             ELSE IF JsGt(cl, maxFileSize)
             THEN [kind |-> "respond", loc |-> l2, sharp |-> NoSharp, err |-> NoError,
                   res |-> ResJson(ResStatus(r, 413), "Image too large", "")]
             ELSE [kind |-> "await", loc |-> l2, sharp |-> decode, err |-> NoError,
                   res |-> r]
        ELSE IF thrown # ""
             THEN [kind |-> "throw", loc |-> l, sharp |-> decode, res |-> r,
                   err |-> Error("", 0, thrown)]
             ELSE [kind |-> "await", loc |-> l,
                   sharp |-> [decode EXCEPT !.format = fmt, !.quality = l.targetQuality],
                   err |-> NoError, res |-> r]

\* The outbound request settles with the source's answer s.  Only the
\* handlers that pass a timeout to the client see it abort the request.
FetchSettles(s) ==
    LET e == FetchError(handler, s)
        a == AfterFetch(handler, s, loc, res)
    IN  /\ pc = "fetching"
        /\ s.outcome = "ECONNABORTED" => handler \in FullHandlers
        /\ src' = s
        /\ IF e # NoError
           THEN /\ pc' = "done"
                /\ res' = Catch(handler, res, e, config.nodeEnv)
                /\ UNCHANGED <<loc, sharp>>
           ELSE /\ loc' = a.loc
                /\ sharp' = a.sharp
                /\ pc' = IF a.kind # "await" THEN "done"
                         ELSE IF handler \in FullHandlers THEN "metadata"
                         ELSE "encoding"
                /\ res' = IF a.kind = "throw"
                          THEN Catch(handler, a.res, a.err, config.nodeEnv)
                          ELSE a.res
        /\ UNCHANGED <<other, config, handler, req, net>>

\* ------------------------------------------------------------------------
\* Metadata and the resize plan
\* ------------------------------------------------------------------------
\* index.js:124-165 and 337-357: [needsResize, resizeOptions]
PlanClamp(l, ow, oh) ==
    LET w1 == IF ow > maxWidth THEN maxWidth ELSE ow
        h1 == IF ow > maxWidth THEN MathRound(maxWidth * oh, ow) ELSE oh
        h2 == IF h1 > maxHeight THEN maxHeight ELSE h1
        w2 == IF h1 > maxHeight THEN MathRound(maxHeight * ow, oh) ELSE w1
    IN  IF ow > maxWidth \/ oh > maxHeight
        THEN [needsResize |-> TRUE,
              resizeOptions |-> [width |-> Num(w2), height |-> Num(h2)]]
        ELSE IF Truthy(l.targetWidth) \/ Truthy(l.targetHeight)
        THEN [needsResize |-> TRUE,
              resizeOptions |-> [width |-> l.targetWidth, height |-> l.targetHeight]]
        ELSE [needsResize |-> FALSE, resizeOptions |-> NoResize]

\* index1.js:181-195
PlanMin(l, ow, oh) ==
    IF ow > maxWidth \/ oh > maxHeight \/ Truthy(l.targetWidth) \/ Truthy(l.targetHeight)
    THEN [needsResize |-> TRUE,
          resizeOptions |->
              [width |-> JsOr(l.targetWidth, Num(Min(ow, maxWidth))),
               height |-> JsOr(l.targetHeight, Num(Min(oh, maxHeight)))]]
    ELSE [needsResize |-> FALSE, resizeOptions |-> NoResize]

SupportedFormats == {"jpeg", "png", "webp", "avif"}
\* if (!["jpeg", "png", "webp", "avif"].includes(targetFormat)) targetFormat = "webp"
FallbackFormat(f) == IF f \in SupportedFormats THEN f ELSE "webp"

\* The headers set before the result is produced.
SuccessHeaders(h, r, l, f) ==
    [r EXCEPT !.headers.contentType = f,
              !.headers.cacheControl = LongCache,
              !.headers.xOriginalSize = l.contentLength.n,
              !.headers.xOriginalWidth = l.originalWidth,
              !.headers.xOriginalHeight = l.originalHeight,
              !.headers.xResizeApplied =
                  IF h = "sanitizing" THEN @
                  ELSE IF l.needsResize THEN "true" ELSE "false"]

\* The first metadata() settles; the handler plans, queues resize, grayscale
\* and toFormat on the instance, and awaits the final metadata (buffered) or
\* sets the headers and starts piping (streaming, index1.js).
MetadataSettles ==
    LET ow == src.width
        oh == src.height
        plan == IF handler = "sanitizing" THEN PlanMin(loc, ow, oh)
                ELSE PlanClamp(loc, ow, oh)
        f == IF handler = "buffered" THEN loc.targetFormat
             ELSE FallbackFormat(loc.targetFormat)
        l == [loc EXCEPT !.originalWidth = ow, !.originalHeight = oh,
                         !.needsResize = plan.needsResize,
                         !.resizeOptions = plan.resizeOptions,
                         !.targetFormat = f]
        badResize == IF plan.needsResize THEN SharpResize(plan.resizeOptions) ELSE ""
        badFormat == SharpToFormat(f, loc.targetQuality)
        thrown == IF src.image = "corrupt"
                  THEN "Input buffer contains unsupported image format"
                  ELSE IF badResize # "" THEN badResize ELSE badFormat
    IN  /\ pc = "metadata"
        /\ IF thrown # ""
           THEN /\ pc' = "done"
                /\ res' = Catch(handler, res, Error("", 0, thrown), config.nodeEnv)
                /\ loc' = IF src.image = "corrupt" THEN loc ELSE l
                /\ sharp' = IF src.image = "corrupt" \/ badResize # "" THEN sharp
                            ELSE [sharp EXCEPT !.resized = plan.needsResize,
                                               !.resizeOptions = plan.resizeOptions,
                                               !.grayscale = loc.useGrayscale]
           ELSE /\ loc' = l
                /\ sharp' = [sharp EXCEPT !.resized = plan.needsResize,
                                          !.resizeOptions = plan.resizeOptions,
                                          !.grayscale = loc.useGrayscale,
                                          !.format = f,
                                          !.quality = loc.targetQuality]
                /\ IF handler = "buffered"
                   THEN pc' = "finalMetadata" /\ res' = res
                   ELSE pc' = "piping" /\ res' = SuccessHeaders(handler, res, l, f)
        /\ UNCHANGED <<other, config, handler, req, src, net>>

\* ------------------------------------------------------------------------
\* Encoding and the response
\* ------------------------------------------------------------------------
\* Dimensions of the image the instance produces.
OutputDims ==
    IF sharp.resized THEN ResizedDims(src.width, src.height, sharp.resizeOptions)
    ELSE <<src.width, src.height>>

\* metadata() of an instance: read from the header of the input image,
\* whatever operations are queued on the instance.
SharpMetadata == [width |-> src.width, height |-> src.height, format |-> src.format]

\* index.js:200-215: the final metadata settles, the headers are set and the
\* handler awaits toBuffer().
FinalMetadataSettles ==
    LET finalMetadata == SharpMetadata
        r == SuccessHeaders(handler, res, loc, loc.targetFormat)
    IN  /\ pc = "finalMetadata"
        /\ res' = [r EXCEPT !.headers.xProcessedWidth = finalMetadata.width,
                            !.headers.xProcessedHeight = finalMetadata.height,
                            !.headers.xProcessedFormat = finalMetadata.format]
        /\ pc' = "encoding"
        /\ UNCHANGED <<other, config, handler, req, loc, src, net, sharp>>

\* toBuffer() settles: the pixels are decoded and encoded now, which fails on
\* an image whose data is cut short.
ToBufferSettles ==
    /\ pc = "encoding"
    /\ pc' = "done"
    /\ IF src.image # "good"
       THEN /\ res' = Catch(handler, res,
                            Error("", 0, IF src.image = "corrupt"
                                         THEN "Input buffer contains unsupported image format"
                                         ELSE "premature end of input"),
                            config.nodeEnv)
            /\ sharp' = sharp
       ELSE /\ sharp' = [sharp EXCEPT !.sent = MaxChunks]
            /\ res' = CASE handler = "buffered" -> ResImage(res)
                        [] handler = "proxy" ->
                             ResImage([ResStatus(res, 200) EXCEPT
                                          !.headers.contentType = sharp.format])
                        [] OTHER ->
                             ResImage([res EXCEPT
                                          !.headers.contentType = sharp.format,
                                          !.headers.cacheControl = LongCache])
    /\ UNCHANGED <<other, config, handler, req, loc, src, net>>

\* processed.pipe(res): the encoder emits a chunk, which is written to the
\* response.
PipeChunk ==
    /\ pc = "piping"
    /\ sharp.sent < MaxChunks
    /\ sharp' = [sharp EXCEPT !.sent = @ + 1]
    /\ res' = [res EXCEPT !.writes = Append(@, Body("image", "", ""))]
    /\ UNCHANGED <<other, config, handler, pc, req, loc, src, net>>

\* The encoder ends and pipe ends the response.
PipeEnd ==
    /\ pc = "piping"
    /\ src.image = "good"
    /\ sharp.sent = MaxChunks
    /\ res' = ResEnd(res)
    /\ pc' = "done"
    /\ UNCHANGED <<other, config, handler, req, loc, src, net, sharp>>

\* A variant in which an 'error' listener answers with the catch block's JSON.
PipeErrorAnswers ==
    /\ pc = "piping"
    /\ src.image = "truncated"
    /\ pc' = "done"
    /\ res' = Catch(handler, res, Error("", 0, "premature end of input"), config.nodeEnv)
    /\ UNCHANGED <<other, config, handler, req, loc, src, net, sharp>>

\* The encoder emits 'error': pipe does not forward it and nothing ends the
\* response.
PipeError ==
    /\ pc = "piping"
    /\ src.image = "truncated"
    /\ pc' = "failed"
    /\ UNCHANGED <<other, config, handler, req, loc, src, net, sharp, res>>

Next ==
    \/ \E r \in Requests, viaLocalhost \in BOOLEAN : HandleRequest(r, viaLocalhost)
    \/ \E s \in SourceSamples : FetchSettles(s)
    \/ MetadataSettles
    \/ FinalMetadataSettles
    \/ ToBufferSettles
    \/ PipeChunk
    \/ PipeEnd
    \/ PipeError

Spec == Init /\ [][Next]_vars

\* ------------------------------------------------------------------------
\* Several requests in one process
\* ------------------------------------------------------------------------
\* The running handler reaches an await and the event loop resumes the other
\* request; the two requests share the module's config.
Switch ==
    /\ other' = Slot(pc, req, loc, src, net, sharp, res)
    /\ pc' = other.pc
    /\ req' = other.req
    /\ loc' = other.loc
    /\ src' = other.src
    /\ net' = other.net
    /\ sharp' = other.sharp
    /\ res' = other.res
    /\ UNCHANGED <<config, handler>>

\* The request is over and the process takes the next one.
NextRequest ==
    /\ pc \in {"done", "failed"}
    /\ pc' = "idle"
    /\ req' = BaseRequest
    /\ loc' = NoLocals
    /\ src' = NoSource
    /\ net' = NoNet
    /\ sharp' = NoSharp
    /\ res' = NewResponse
    /\ UNCHANGED <<config, handler, other>>

PairRequests ==
    {BaseRequest,
     [BaseRequest EXCEPT !.format = "png"],
     [BaseRequest EXCEPT !.width = <<"8", "0", "0">>],
     [BaseRequest EXCEPT !.quality = <<"1", "0", "1">>],
     [BaseRequest EXCEPT !.url = UrlUndefined]}
PairSources ==
    {SourceFails("ETIMEDOUT", 0),
     SourceFails("http", 404),
     SourceOk("image/jpeg", TRUE, SmallBytes, "good", 1, 40000),
     SourceOk("image/jpeg", TRUE, SmallBytes, "good", 3000, 2000),
     SourceOk("image/jpeg", TRUE, SmallBytes, "truncated", 100, 100)}

\* The process runs one version of the HTTP client.
NextPair ==
    \/ \E r \in PairRequests : HandleRequest(r, FALSE)
    \/ \E s \in PairSources : FetchSettles(s)
    \/ MetadataSettles
    \/ FinalMetadataSettles
    \/ ToBufferSettles
    \/ PipeChunk
    \/ PipeEnd
    \/ PipeError
    \/ Switch
    \/ NextRequest

SpecPair == Init /\ [][NextPair]_vars

\* ------------------------------------------------------------------------
\* Properties
\* ------------------------------------------------------------------------
\* The handlers with the parameter checks the properties speak of.
CheckedHandlers == {"buffered", "streaming", "sanitizing"}
\* The request is an ordinary GET of the image endpoint.
PlainGet == pc # "idle" /\ req.method = "GET" /\ req.path = "/"
\* A supplied numeric parameter parses as an integer of lo..hi.
ParsesIn(str, lo, hi) ==
    LET v == parseInt(str, 10) IN v.t = "num" /\ v.n >= lo /\ v.n <= hi
OtherwiseValid(q) ==
    /\ UrlParses(q.url) /\ q.url.scheme \in {"http", "https"}
    /\ TruthyStr(q.width) => ParsesIn(q.width, 1, maxWidth)
    /\ TruthyStr(q.height) => ParsesIn(q.height, 1, maxHeight)
    /\ TruthyStr(q.quality) => ParsesIn(q.quality, 1, 100)
    /\ q.format \in {"undefined", ""} \cup SupportedFormats
\* The response carries the processed image (whole, or the chunks piped).
ImageSent == \E i \in 1..Len(res.writes) : res.writes[i].kind = "image"

\* C1: in every handler, a GET whose url parameter is absent or empty is
\* answered with status 400 and no outbound request is issued for it.
C1_MissingUrlIs400 ==
    (PlainGet /\ UrlFalsy(req.url)) => (res.status = 400 /\ net.fetches = 0)

\* C2: in the buffered handler of index.js and in index1.js, a url that does
\* not parse as an absolute URL, or whose scheme is not http or https, is
\* answered with status 400 and no outbound request is issued for it.
C2_InvalidUrlIs400 ==
    (/\ PlainGet
     /\ handler \in {"buffered", "sanitizing"}
     /\ req.url.kind = "text"
     /\ ~(UrlParses(req.url) /\ req.url.scheme \in {"http", "https"}))
    => (res.status = 400 /\ net.fetches = 0)

\* C3: a supplied quality that does not parse as an integer of 1..100 is
\* answered with 400 without a fetch; a supplied quality of 1..100 passes and
\* the request goes on to the fetch; an absent quality becomes 80.
C3_QualityValidated ==
    (PlainGet /\ handler \in CheckedHandlers
     /\ OtherwiseValid([req EXCEPT !.quality = Undefined])
     /\ DomainCheck(config, req.url.host) = "")
    => /\ (TruthyStr(req.quality) /\ ~ParsesIn(req.quality, 1, 100))
            => (res.status = 400 /\ net.fetches = 0)
       /\ (TruthyStr(req.quality) /\ ParsesIn(req.quality, 1, 100))
            => (net.fetches = 1 /\ loc.targetQuality = parseInt(req.quality, 10))
       /\ ~TruthyStr(req.quality)
            => (net.fetches = 1 /\ loc.targetQuality = Num(defaultQuality))

\* C4: a supplied width (height) that does not parse as an integer of
\* 1..maxWidth (1..maxHeight) is answered with 400; it reaches neither the
\* fetch nor the planner and is not treated as an absent parameter.
C4_DimensionValidated ==
    (/\ PlainGet
     /\ handler \in CheckedHandlers
     /\ \/ req.width # Undefined /\ ~ParsesIn(req.width, 1, maxWidth)
        \/ req.height # Undefined /\ ~ParsesIn(req.height, 1, maxHeight))
    => (res.status = 400 /\ net.fetches = 0)

\* C5: an explicitly supplied format outside jpeg, png, webp, avif never
\* reaches the encoder and never gets a success response; once the request
\* is answered, its status is 400.
C5_UnsupportedFormatIs400 ==
    (/\ PlainGet
     /\ handler \in CheckedHandlers
     /\ req.format \notin ({"undefined", ""} \cup SupportedFormats))
    => /\ sharp.format = ""
       /\ ~ImageSent
       /\ (/\ pc = "done"
           /\ \/ src = NoSource
              \/ /\ src.outcome = "ok" /\ IsImageType(src.contentType)
                 /\ src.image = "good" /\ src.bytes <= maxFileSize
                 /\ src.width <= maxWidth /\ src.height <= maxHeight)
            => res.status = 400

\* C6: in the buffered and the streaming handler of index.js, whatever the
\* Content-Length header says, an image body of more than maxFileSize bytes
\* ends the request with 413 and is never handed to the decoder, and a body
\* of at most maxFileSize bytes is not answered with 413.
C6_SizeCeilingOnBytes ==
    (/\ handler \in {"buffered", "streaming"}
     /\ src.outcome = "ok"
     /\ IsImageType(src.contentType))
    => /\ src.bytes > maxFileSize
            => (pc = "done" /\ res.status = 413 /\ sharp.input = -1)
       /\ src.bytes <= maxFileSize => res.status # 413

\* The request reached the domain check of the buffered handler.
ReachedDomainCheck ==
    /\ PlainGet
    /\ handler = "buffered"
    /\ UrlParses(req.url)
    /\ ValidateBuffered(ParseQuery(req, 0, config)) = ""
ListsEmpty == config.allowedDomains = {} /\ config.blockedDomains = {}
HostRefused ==
    \/ req.url.host \in config.blockedDomains
    \/ config.allowedDomains # {} /\ req.url.host \notin config.allowedDomains

C8_TransportFailuresClassified ==
    (handler \in CheckedHandlers /\ pc = "done")
    => /\ src.outcome \in {"ECONNABORTED", "ETIMEDOUT"} => res.status = 408
       /\ src.outcome \in {"ENOTFOUND", "ECONNREFUSED"} => res.status = 502

\* The default format of a handler: config.image.defaultFormat, or the
\* default of its format parameter.
DefaultFormatOf(h) ==
    CASE h = "convert" -> "jpeg" [] h = "jpegonly" -> "jpeg" [] OTHER -> defaultFormat
\* C9: the format of the image sent is the explicit format parameter if
\* supplied, otherwise webp if the Accept header contains image/webp,
\* otherwise the default format.
C9_FormatPriority ==
    ImageSent
    => sharp.format =
         (IF req.format \notin {"undefined", ""} THEN req.format
          ELSE IF req.acceptWebp THEN "webp"
          ELSE DefaultFormatOf(handler))

\* C10: the X-Processed-Width and X-Processed-Height headers of a success
\* response are the dimensions of the emitted image, the fit-inside,
\* non-enlarging result of the resize plan on the original dimensions.
C10_ProcessedDimsReported ==
    (ImageSent /\ res.headers.xProcessedWidth # -1)
    => /\ res.headers.xProcessedWidth = OutputDims[1]
       /\ res.headers.xProcessedHeight = OutputDims[2]

\* A dimension of the resize options is not given, or lies in 1..max.
DimInBounds(v, max) == v.t = "null" \/ (v.t = "num" /\ v.n >= 1 /\ v.n <= max)
\* The request's width and height passed validation as the claims mean it.
DimsValidated ==
    /\ TruthyStr(req.width) => ParsesIn(req.width, 1, maxWidth)
    /\ TruthyStr(req.height) => ParsesIn(req.height, 1, maxHeight)

\* C11: for every original size and every validated targetWidth and
\* targetHeight, each dimension of the resize target the planner hands to
\* the resize stage lies in 1..maxWidth resp. 1..maxHeight.
C11_ResizeTargetInBounds ==
    (handler \in CheckedHandlers /\ loc.needsResize /\ DimsValidated)
    => /\ DimInBounds(loc.resizeOptions.width, maxWidth)
       /\ DimInBounds(loc.resizeOptions.height, maxHeight)

\* The kinds of the bodies written to the response.
BodyKinds == {res.writes[i].kind : i \in 1..Len(res.writes)}

\* C12: the response kind is fixed once: a response with an error status
\* never has image bytes written to it, a response to which image bytes were
\* written never receives an error body as well, and apart from the chunks
\* of one piped image at most one body is written.
C12_OneResponseKind ==
    /\ res.status >= 400 => ~ImageSent
    /\ ImageSent => BodyKinds = {"image"}
    /\ ~ImageSent => Len(res.writes) <= 1
    /\ (ImageSent /\ handler \notin {"streaming", "sanitizing"}) => Len(res.writes) = 1
\* The stream fails after image bytes were piped into the response.
C12_Witness ==
    /\ pc = "failed"
    /\ handler \in {"streaming", "sanitizing"}
    /\ ImageSent
    /\ res.headers.cacheControl = LongCache

\* The stages of the pipeline, read off the state.
\* The fetch was classified as a 2xx image response within the size ceiling.
FetchClassified ==
    /\ src # NoSource
    /\ src.outcome = "ok"
    /\ IsImageType(src.contentType)
    /\ ~JsGt(loc.contentLength, maxFileSize)
\* The decoder was handed the fetched bytes.
DecoderFed == sharp.input # -1
\* The plan is final: the metadata was read and the resize decision taken.
PlanFinal == loc.originalWidth > 0 /\ loc.originalHeight > 0
\* The encode call was made on the instance.
EncodeCalled == sharp.format # ""
\* The transform has produced its whole output.
TransformCompleted == sharp.sent = MaxChunks
\* A header of the success response is set.
SuccessHeaderSet ==
    \/ res.headers.cacheControl = LongCache
    \/ res.headers.contentType \in SharpOutputFormats
    \/ res.headers.xOriginalWidth # NoHeaders.xOriginalWidth

\* C13: in the buffered and the streaming handler of index.js the stages run
\* strictly as fetch, metadata and plan, transform, emit: the decoder is
\* given bytes only after the fetch was classified as a 2xx image response
\* within the size ceiling, the encode call is made only once the plan is
\* final, no success header is set before the transform has completed, and
\* after a failed stage no later stage is invoked.
C13_StagesInOrder ==
    handler \in {"buffered", "streaming"}
    => /\ DecoderFed => FetchClassified
       /\ EncodeCalled => (DecoderFed /\ PlanFinal)
       /\ SuccessHeaderSet => (EncodeCalled /\ TransformCompleted)
       /\ ImageSent => SuccessHeaderSet
       /\ (src # NoSource /\ ~FetchClassified) => (sharp = NoSharp /\ ~ImageSent)
       /\ res.status >= 400 => (pc = "done" /\ ~ImageSent)

\* The result of a request apart from the bytes: status, headers and what
\* was queued on the sharp instance.
Outcome(slot) ==
    [status |-> slot.res.status, headers |-> slot.res.headers,
     sharp |-> [slot.sharp EXCEPT !.sent = 0]]
ThisSlot == Slot(pc, req, loc, src, net, sharp, res)
\* Two identical requests against the same answer of the source are over.
TwinsDone ==
    /\ pc \in {"done", "failed"}
    /\ other.pc = pc
    /\ other.req = req
    /\ other.src = src

\* C14: under any interleaving of the requests a process handles, no step
\* of a handler changes the module's config, and the outcome of a request
\* depends on its own parameters and on the source's answer only: two
\* identical requests against an unchanged source end with the same status,
\* headers and output parameters, whatever requests ran in between.
C14_RequestsIsolated ==
    /\ config \in Configs(handler)
    /\ TwinsDone => Outcome(ThisSlot) = Outcome(other)
\* Two identical requests of a resized image have both been answered.
C14_Witness ==
    /\ TwinsDone
    /\ pc = "done"
    /\ req.width # Undefined
    /\ src.outcome = "ok"
    /\ ImageSent
    /\ Len(other.res.writes) > 0

\* C15: outside development the body of the answer to an unclassified
\* internal failure (status 500 from a catch block of index.js, index1.js or
\* the proxy handler of index2.js) never holds the text of the internal
\* error's message.
C15_NoMessageOutsideDevelopment ==
    (/\ handler \in {"buffered", "streaming", "sanitizing", "proxy"}
     /\ config.nodeEnv # "development"
     /\ res.status = 500)
    => \A i \in 1..Len(res.writes) : res.writes[i].message = ""

\* The handler has nothing left to run for the request.
HandlerOver == pc \in {"done", "failed"}

\* C16: every request's response is terminated: once the handler has nothing
\* left to run for the request, also after the decoder or encoder failed
\* while processed.pipe(res) was feeding the response, the response is ended.
C16_ResponseTerminated == HandlerOver => res.ended

\* C17: an error response never carries the long-lived cache directive:
\* every response with a status of 400 or more, also the one the buffered
\* handler gives when toBuffer fails after the success headers were set, has
\* no Cache-Control: public, max-age=31536000, immutable.
C17_NoLongCacheOnError == res.status >= 400 => res.headers.cacheControl # LongCache
====
